---- MODULE Spec2Model ----
(***************************************************************************)
(* Configuration resolver of drizzle-repositories (validateConfig,         *)
(* applyDefaults) and the findPaginated of its BaseRepository, modelled     *)
(* over JavaScript values.                                                 *)
(*                                                                         *)
(* A JavaScript value is a record [t, n, s]: t is the result of typeof     *)
(* (with "null" kept apart from "object" and "array" apart from "object"), *)
(* n the numeric payload (numbers; 1/0 for booleans) and s the text        *)
(* payload (strings; "NaN" marks the number NaN).                          *)
(***************************************************************************)
EXTENDS Integers, Sequences, FiniteSets, TLC

VARIABLES
    config,         \* the candidate object handed to validateConfig / applyDefaults
    result,         \* the last ConfigValidationResult returned by validateConfig
    pc,             \* the last operation that returned ("ready" before any call)
    returned,       \* the last configuration returned by applyDefaults,
                    \* createMinimalConfig or createExampleConfig: <<>> or <<cfg>>
    defaultConfig,  \* the module-level DEFAULT_CONFIG object
    args,           \* the arguments of the last createMinimalConfig or
                    \* createExampleConfig call (<<>> for the other operations,
                    \* whose argument is config)
    shared          \* the nested objects of the returned configuration that
                    \* are the very objects of the candidate (same reference)

configVars == <<config, result, pc, returned, defaultConfig, args, shared>>

VARIABLES
    repo,           \* a repository: its class generation and this.config
    call,           \* the findPaginated call: its arguments and computed window
    fetchOp,        \* the findMany operation issued by the call
    countOp,        \* the count operation issued by the call
    promiseAll,     \* the Promise.all joining the two operations
    outcome,        \* the promise returned by findPaginated
    settled,        \* history: the operations of the call in the order they settled
    transaction,    \* the state of the caller's transaction ("none" without one)
    table,          \* the number of rows of the table that match the filter
    seen            \* history: the number of rows each operation found when it
                    \* read the table (-1 before it has read)

tableVars == <<table, seen>>

pageVars ==
    <<repo, call, fetchOp, countOp, promiseAll, outcome, settled, transaction, tableVars>>

vars == <<configVars, pageVars>>

(***************************************************************************)
(* JavaScript values                                                       *)
(***************************************************************************)
Undefined == [t |-> "undefined", n |-> 0, s |-> ""]

Null == [t |-> "null", n |-> 0, s |-> ""]

NaN == [t |-> "number", n |-> 0, s |-> "NaN"]

Num(k) == [t |-> "number", n |-> k, s |-> ""]

Str(x) == [t |-> "string", n |-> 0, s |-> x]

Bool(b) == [t |-> "boolean", n |-> IF b THEN 1 ELSE 0, s |-> ""]

EmptyArray == [t |-> "array", n |-> 0, s |-> ""]

\* the number k + 0.5
Half(k) == [t |-> "number", n |-> k, s |-> "+0.5"]

Infinity == [t |-> "number", n |-> 0, s |-> "Infinity"]

NegInfinity == [t |-> "number", n |-> 0, s |-> "-Infinity"]

IsNaN(v) == v.t = "number" /\ v.s = "NaN"

\* v is a number with a finite value
IsFinite(v) == v.t = "number" /\ v.s \in {"", "+0.5"}

\* twice the value of a finite number, an integer
Twice(v) == 2 * v.n + (IF v.s = "+0.5" THEN 1 ELSE 0)

\* the finite number whose double is k
FromTwice(k) == IF k % 2 = 0 THEN Num(k \div 2) ELSE Half(k \div 2)

\* typeof v
TypeOf(v) == IF v.t \in {"null", "array"} THEN "object" ELSE v.t

\* ToBoolean(v), the test behind !v and v && w
Truthy(v) ==
    CASE v.t = "undefined" -> FALSE
      [] v.t = "null" -> FALSE
      [] v.t = "number" -> ~IsNaN(v) /\ v # Num(0)
      [] v.t = "string" -> v.s # ""
      [] v.t = "boolean" -> v.n = 1
      [] OTHER -> TRUE

\* v || d
CoalesceOr(v, d) == IF Truthy(v) THEN v ELSE d

\* v ?? d
Coalesce(v, d) == IF v.t \in {"undefined", "null"} THEN d ELSE v

\* ToNumber(v); every text of the model other than "" is non-numeric
ToNumber(v) ==
    CASE v.t = "number" -> v
      [] v.t = "null" -> Num(0)
      [] v.t = "boolean" -> Num(v.n)
      [] v.t = "string" -> IF v.s = "" THEN Num(0) ELSE NaN
      [] OTHER -> NaN

\* the texts of the model in code-unit order, for text-with-text comparison
StringOrder == <<"", "./base", "./out", "./s", "fast", "mysql", "oracle", "pg", "sqlite", "ten">>

StringRank(x) == CHOOSE i \in 1..Len(StringOrder) : StringOrder[i] = x

\* x < y for numbers
NumLess(x, y) ==
    CASE IsNaN(x) \/ IsNaN(y) -> FALSE
      [] x = y -> FALSE
      [] x = NegInfinity \/ y = Infinity -> TRUE
      [] x = Infinity \/ y = NegInfinity -> FALSE
      [] OTHER -> Twice(x) < Twice(y)

\* a < b (abstract relational comparison)
JsLt(a, b) ==
    IF a.t = "string" /\ b.t = "string"
    THEN StringRank(a.s) < StringRank(b.s)
    ELSE NumLess(ToNumber(a), ToNumber(b))

\* a > b
JsGt(a, b) == JsLt(b, a)

\* a <= b
JsLe(a, b) ==
    IF a.t = "string" /\ b.t = "string"
    THEN StringRank(a.s) <= StringRank(b.s)
    ELSE LET x == ToNumber(a)
             y == ToNumber(b)
         IN  ~IsNaN(x) /\ ~IsNaN(y) /\ (x = y \/ NumLess(x, y))

\* a === b
StrictEquals(a, b) == a = b /\ ~IsNaN(a)

\* Math.floor(v)
MathFloor(v) ==
    LET x == ToNumber(v)
    IN  IF x.s = "+0.5" THEN Num(x.n) ELSE x

\* Math.max(a, b)
MathMax(a, b) ==
    LET x == ToNumber(a)
        y == ToNumber(b)
    IN  IF IsNaN(x) \/ IsNaN(y) THEN NaN ELSE IF NumLess(x, y) THEN y ELSE x

\* Math.min(a, b)
MathMin(a, b) ==
    LET x == ToNumber(a)
        y == ToNumber(b)
    IN  IF IsNaN(x) \/ IsNaN(y) THEN NaN ELSE IF NumLess(y, x) THEN y ELSE x

\* a - b for numbers
JsSub(a, b) ==
    CASE IsNaN(a) \/ IsNaN(b) -> NaN
      [] IsFinite(a) /\ IsFinite(b) -> FromTwice(Twice(a) - Twice(b))
      [] IsFinite(a) -> IF b = Infinity THEN NegInfinity ELSE Infinity
      [] IsFinite(b) -> a
      [] OTHER -> IF a = b THEN NaN ELSE a

\* -1, 0 or 1 for a number other than NaN
Sign(v) ==
    CASE v = Infinity -> 1
      [] v = NegInfinity -> -1
      [] OTHER -> IF Twice(v) > 0 THEN 1 ELSE IF Twice(v) < 0 THEN -1 ELSE 0

\* a * b for numbers, a being an integer when it is finite
JsMul(a, b) ==
    CASE IsNaN(a) \/ IsNaN(b) -> NaN
      [] IsFinite(a) /\ IsFinite(b) -> FromTwice(a.n * Twice(b))
      [] Sign(a) * Sign(b) = 0 -> NaN
      [] OTHER -> IF Sign(a) * Sign(b) > 0 THEN Infinity ELSE NegInfinity

\* Math.ceil(a / b) for an integer a >= 0 and a number b (a zero result
\* stands for both 0 and -0)
CeilOfQuotient(a, b) ==
    CASE IsNaN(a) \/ IsNaN(b) -> NaN
      [] ~IsFinite(b) -> Num(0)
      [] Twice(b) = 0 -> IF a.n = 0 THEN NaN ELSE Infinity
      [] Twice(b) > 0 -> Num(-((-(2 * a.n)) \div Twice(b)))
      [] OTHER -> Num(-((2 * a.n) \div (-Twice(b))))

(***************************************************************************)
(* Optional nested groups: t = "undefined" when the group is absent        *)
(***************************************************************************)
NoPagination == [t |-> "undefined", defaultLimit |-> Undefined, maxLimit |-> Undefined]

Pagination(d, m) == [t |-> "object", defaultLimit |-> d, maxLimit |-> m]

NoNaming ==
    [t |-> "undefined", baseRepositorySuffix |-> Undefined,
     repositorySuffix |-> Undefined, usePascalCase |-> Undefined]

NoImports ==
    [t |-> "undefined", drizzleOrmPath |-> Undefined,
     schemaImportPath |-> Undefined, additionalImports |-> Undefined]

NoFeatures ==
    [t |-> "undefined", relationships |-> Undefined, auditTrail |-> Undefined,
     validation |-> Undefined, caching |-> Undefined]

NoTypescript ==
    [t |-> "undefined", strictNullChecks |-> Undefined, target |-> Undefined,
     moduleSystem |-> Undefined, generateDeclarations |-> Undefined]

\* group?.key
Opt(group, key) == IF group.t = "undefined" THEN Undefined ELSE group[key]

(***************************************************************************)
(* DEFAULT_CONFIG                                                          *)
(***************************************************************************)
DefaultTransactionTimeout == 30000

DefaultLimit == 20

DefaultMaxLimit == 100

DEFAULT_CONFIG ==
    [transactionTimeout |-> Num(DefaultTransactionTimeout),
     pagination |-> [defaultLimit |-> Num(DefaultLimit), maxLimit |-> Num(DefaultMaxLimit)],
     naming |-> [baseRepositorySuffix |-> Str("Repository"),
                 repositorySuffix |-> Str("Repository"),
                 usePascalCase |-> Bool(TRUE)],
     features |-> [relationships |-> Bool(FALSE), auditTrail |-> Bool(FALSE),
                   validation |-> Bool(FALSE), caching |-> Bool(FALSE)],
     typescript |-> [strictNullChecks |-> Bool(TRUE), target |-> Str("ES2022"),
                     moduleSystem |-> Str("ESM"), generateDeclarations |-> Bool(TRUE)]]

(***************************************************************************)
(* applyDefaults                                                           *)
(***************************************************************************)
\* applyDefaults taking transactionTimeout in seconds and storing milliseconds
applyDefaultsSeconds(c) ==
    [dialect |-> c.dialect,
     schemaPath |-> c.schemaPath,
     outputPath |-> c.outputPath,
     basePath |-> c.basePath,
     logging |-> Coalesce(c.logging, Bool(TRUE)),
     skipConcreteRepositories |-> Coalesce(c.skipConcreteRepositories, Bool(FALSE)),
     baseRepositoryClassName |-> Coalesce(c.baseRepositoryClassName, Str("BaseRepository")),
     transactionTimeout |->
        LET seconds == Coalesce(c.transactionTimeout, Num(30))
        IN  IF seconds.t = "number" /\ seconds.s = ""
            THEN Num(seconds.n * 1000)
            ELSE seconds,
     pagination |->
        [t |-> "object",
         defaultLimit |-> Coalesce(Opt(c.pagination, "defaultLimit"),
                                   defaultConfig.pagination.defaultLimit),
         maxLimit |-> Coalesce(Opt(c.pagination, "maxLimit"),
                               defaultConfig.pagination.maxLimit)],
     naming |->
        [t |-> "object",
         baseRepositorySuffix |-> Coalesce(Opt(c.naming, "baseRepositorySuffix"),
                                           defaultConfig.naming.baseRepositorySuffix),
         repositorySuffix |-> Coalesce(Opt(c.naming, "repositorySuffix"),
                                       defaultConfig.naming.repositorySuffix),
         usePascalCase |-> Coalesce(Opt(c.naming, "usePascalCase"),
                                    defaultConfig.naming.usePascalCase)],
     imports |->
        [t |-> "object",
         drizzleOrmPath |-> Coalesce(Opt(c.imports, "drizzleOrmPath"), Str("drizzle-orm")),
         schemaImportPath |-> Coalesce(Opt(c.imports, "schemaImportPath"), Str("../schema")),
         additionalImports |-> Coalesce(Opt(c.imports, "additionalImports"), EmptyArray)],
     features |->
        [t |-> "object",
         relationships |-> Coalesce(Opt(c.features, "relationships"),
                                    defaultConfig.features.relationships),
         auditTrail |-> Coalesce(Opt(c.features, "auditTrail"),
                                 defaultConfig.features.auditTrail),
         validation |-> Coalesce(Opt(c.features, "validation"),
                                 defaultConfig.features.validation),
         caching |-> Coalesce(Opt(c.features, "caching"),
                              defaultConfig.features.caching)],
     typescript |->
        [t |-> "object",
         strictNullChecks |-> Coalesce(Opt(c.typescript, "strictNullChecks"),
                                       defaultConfig.typescript.strictNullChecks),
         target |-> Coalesce(Opt(c.typescript, "target"), defaultConfig.typescript.target),
         moduleSystem |-> Coalesce(Opt(c.typescript, "moduleSystem"),
                                   defaultConfig.typescript.moduleSystem),
         generateDeclarations |-> Coalesce(Opt(c.typescript, "generateDeclarations"),
                                           defaultConfig.typescript.generateDeclarations)]]

applyDefaults(c) ==
    [dialect |-> c.dialect,
     schemaPath |-> c.schemaPath,
     outputPath |-> c.outputPath,
     basePath |-> c.basePath,
     logging |-> Coalesce(c.logging, Bool(TRUE)),
     skipConcreteRepositories |-> Coalesce(c.skipConcreteRepositories, Bool(FALSE)),
     baseRepositoryClassName |-> Coalesce(c.baseRepositoryClassName, Str("BaseRepository")),
     transactionTimeout |-> Coalesce(c.transactionTimeout, defaultConfig.transactionTimeout),
     pagination |->
        [t |-> "object",
         defaultLimit |-> Coalesce(Opt(c.pagination, "defaultLimit"),
                                   defaultConfig.pagination.defaultLimit),
         maxLimit |-> Coalesce(Opt(c.pagination, "maxLimit"),
                               defaultConfig.pagination.maxLimit)],
     naming |->
        [t |-> "object",
         baseRepositorySuffix |-> Coalesce(Opt(c.naming, "baseRepositorySuffix"),
                                           defaultConfig.naming.baseRepositorySuffix),
         repositorySuffix |-> Coalesce(Opt(c.naming, "repositorySuffix"),
                                       defaultConfig.naming.repositorySuffix),
         usePascalCase |-> Coalesce(Opt(c.naming, "usePascalCase"),
                                    defaultConfig.naming.usePascalCase)],
     imports |->
        [t |-> "object",
         drizzleOrmPath |-> Coalesce(Opt(c.imports, "drizzleOrmPath"), Str("drizzle-orm")),
         schemaImportPath |-> Coalesce(Opt(c.imports, "schemaImportPath"), Str("../schema")),
         additionalImports |-> Coalesce(Opt(c.imports, "additionalImports"), EmptyArray)],
     features |->
        [t |-> "object",
         relationships |-> Coalesce(Opt(c.features, "relationships"),
                                    defaultConfig.features.relationships),
         auditTrail |-> Coalesce(Opt(c.features, "auditTrail"),
                                 defaultConfig.features.auditTrail),
         validation |-> Coalesce(Opt(c.features, "validation"),
                                 defaultConfig.features.validation),
         caching |-> Coalesce(Opt(c.features, "caching"),
                              defaultConfig.features.caching)],
     typescript |->
        [t |-> "object",
         strictNullChecks |-> Coalesce(Opt(c.typescript, "strictNullChecks"),
                                       defaultConfig.typescript.strictNullChecks),
         target |-> Coalesce(Opt(c.typescript, "target"), defaultConfig.typescript.target),
         moduleSystem |-> Coalesce(Opt(c.typescript, "moduleSystem"),
                                   defaultConfig.typescript.moduleSystem),
         generateDeclarations |-> Coalesce(Opt(c.typescript, "generateDeclarations"),
                                           defaultConfig.typescript.generateDeclarations)]]

\* the nested objects of a configuration: its five groups and the list of
\* additional imports
MutableParts ==
    {"pagination", "naming", "imports", "imports.additionalImports", "features", "typescript"}

\* the objects of applyDefaults(c) that are objects of c itself: each group
\* is a new object literal, the list of additional imports is the
\* candidate's own list when it has one
SharedParts(c) ==
    IF Opt(c.imports, "additionalImports").t = "array"
    THEN {"imports.additionalImports"}
    ELSE {}

(***************************************************************************)
(* validateConfig                                                          *)
(***************************************************************************)
\* an entry of errors or warnings: the field it names and its type
Entry(field, type) == [field |-> field, type |-> type]

SupportedDialects == <<"pg", "mysql", "sqlite">>

\* list.includes(v)
Includes(list, v) == \E i \in 1..Len(list) : StrictEquals(Str(list[i]), v)

\* DialectErrors with the unsupported dialect reported as 'required'
DialectErrorsAlwaysRequired(c) ==
    IF ~Truthy(c.dialect)
    THEN <<Entry("dialect", "required")>>
    ELSE IF ~Includes(SupportedDialects, c.dialect)
         THEN <<Entry("dialect", "required")>>
         ELSE <<>>

DialectErrors(c) ==
    IF ~Truthy(c.dialect)
    THEN <<Entry("dialect", "required")>>
    ELSE IF ~Includes(SupportedDialects, c.dialect)
         THEN <<Entry("dialect", "invalid")>>
         ELSE <<>>

\* PathErrors testing for the empty text only, so that a missing field
\* falls through to the typeof test
PathErrorsEmptyOnly(c, field) ==
    IF c[field] = Str("")
    THEN <<Entry(field, "required")>>
    ELSE IF TypeOf(c[field]) # "string"
         THEN <<Entry(field, "invalid")>>
         ELSE <<>>

\* PathErrors without the typeof test
PathErrorsNoTypeTest(c, field) ==
    IF ~Truthy(c[field])
    THEN <<Entry(field, "required")>>
    ELSE <<>>

\* the check repeated for schemaPath, outputPath and basePath
PathErrors(c, field) ==
    IF ~Truthy(c[field])
    THEN <<Entry(field, "required")>>
    ELSE IF TypeOf(c[field]) # "string"
         THEN <<Entry(field, "invalid")>>
         ELSE <<>>

ShortTimeout == 1000

LongTimeout == 300000

TimeoutInvalid(v) == TypeOf(v) # "number" \/ JsLe(v, Num(0))

TimeoutErrors(c) ==
    IF c.transactionTimeout # Undefined /\ TimeoutInvalid(c.transactionTimeout)
    THEN <<Entry("transactionTimeout", "invalid")>>
    ELSE <<>>

\* TimeoutWarnings with the boundary 1000 counted as short
TimeoutWarningsInclusive(c) ==
    IF c.transactionTimeout # Undefined /\ ~TimeoutInvalid(c.transactionTimeout)
    THEN IF JsLe(c.transactionTimeout, Num(ShortTimeout))
         THEN <<Entry("transactionTimeout", "performance")>>
         ELSE IF JsGt(c.transactionTimeout, Num(LongTimeout))
              THEN <<Entry("transactionTimeout", "performance")>>
              ELSE <<>>
    ELSE <<>>

TimeoutWarnings(c) ==
    IF c.transactionTimeout # Undefined /\ ~TimeoutInvalid(c.transactionTimeout)
    THEN IF JsLt(c.transactionTimeout, Num(ShortTimeout))
         THEN <<Entry("transactionTimeout", "performance")>>
         ELSE IF JsGt(c.transactionTimeout, Num(LongTimeout))
              THEN <<Entry("transactionTimeout", "performance")>>
              ELSE <<>>
    ELSE <<>>

\* LimitErrors accepting zero
LimitErrorsAcceptZero(v, field) ==
    IF v # Undefined /\ (TypeOf(v) # "number" \/ JsLt(v, Num(0)))
    THEN <<Entry(field, "invalid")>>
    ELSE <<>>

LimitErrors(v, field) ==
    IF v # Undefined /\ (TypeOf(v) # "number" \/ JsLe(v, Num(0)))
    THEN <<Entry(field, "invalid")>>
    ELSE <<>>

\* LimitConflictErrors rejecting equal limits too
LimitConflictErrorsEqual(defaultLimit, maxLimit) ==
    IF defaultLimit # Undefined /\ maxLimit # Undefined
       /\ (JsGt(defaultLimit, maxLimit) \/ StrictEquals(defaultLimit, maxLimit))
    THEN <<Entry("pagination", "conflict")>>
    ELSE <<>>

LimitConflictErrors(defaultLimit, maxLimit) ==
    IF defaultLimit # Undefined /\ maxLimit # Undefined /\ JsGt(defaultLimit, maxLimit)
    THEN <<Entry("pagination", "conflict")>>
    ELSE <<>>

PaginationErrors(c) ==
    IF c.pagination.t = "object"
    THEN LimitErrors(c.pagination.defaultLimit, "pagination.defaultLimit")
         \o LimitErrors(c.pagination.maxLimit, "pagination.maxLimit")
         \o LimitConflictErrors(c.pagination.defaultLimit, c.pagination.maxLimit)
    ELSE <<>>

\* PathConflictErrors chained as an else-branch of the pagination conflict
PathConflictErrorsChained(c) ==
    IF c.pagination.t = "object"
       /\ LimitConflictErrors(c.pagination.defaultLimit, c.pagination.maxLimit) # <<>>
    THEN <<>>
    ELSE IF Truthy(c.outputPath) /\ Truthy(c.basePath)
            /\ StrictEquals(c.outputPath, c.basePath)
         THEN <<Entry("outputPath", "conflict")>>
         ELSE <<>>

PathConflictErrors(c) ==
    IF Truthy(c.outputPath) /\ Truthy(c.basePath) /\ StrictEquals(c.outputPath, c.basePath)
    THEN <<Entry("outputPath", "conflict")>>
    ELSE <<>>

\* validation that stops at the first failing check
ErrorsStopAtFirst(c) ==
    LET all == DialectErrors(c)
               \o PathErrors(c, "schemaPath")
               \o PathErrors(c, "outputPath")
               \o PathErrors(c, "basePath")
               \o TimeoutErrors(c)
               \o PaginationErrors(c)
               \o PathConflictErrors(c)
    IN  IF all = <<>> THEN <<>> ELSE <<all[1]>>

Errors(c) ==
    DialectErrors(c)
    \o PathErrors(c, "schemaPath")
    \o PathErrors(c, "outputPath")
    \o PathErrors(c, "basePath")
    \o TimeoutErrors(c)
    \o PaginationErrors(c)
    \o PathConflictErrors(c)

Warnings(c) == TimeoutWarnings(c)

IsValid(errors) == Len(errors) = 0

\* ResolvedConfig computed whether or not the candidate is valid
ResolvedConfigAlways(c, isValid) == <<applyDefaults(c)>>

\* resolvedConfig is <<>> when undefined and <<r>> when it holds r
ResolvedConfig(c, isValid) == IF isValid THEN <<applyDefaults(c)>> ELSE <<>>

\* validateConfig with warnings counted against validity
validateConfigStrict(c) ==
    LET errors == Errors(c)
        warnings == Warnings(c)
        isValid == IsValid(errors) /\ Len(warnings) = 0
    IN  [isValid |-> isValid,
         errors |-> errors,
         warnings |-> warnings,
         resolvedConfig |-> ResolvedConfig(c, isValid)]

validateConfig(c) ==
    LET errors == Errors(c)
        warnings == Warnings(c)
        isValid == IsValid(errors)
    IN  [isValid |-> isValid,
         errors |-> errors,
         warnings |-> warnings,
         resolvedConfig |-> ResolvedConfig(c, isValid)]

(***************************************************************************)
(* createMinimalConfig, createExampleConfig                                *)
(***************************************************************************)
\* createMinimalConfig passing its result through applyDefaults
createMinimalConfigResolved(dialect, schemaPath, outputPath, basePath) ==
    applyDefaults(
        [dialect |-> dialect, schemaPath |-> schemaPath,
         outputPath |-> outputPath, basePath |-> basePath,
         logging |-> Undefined, skipConcreteRepositories |-> Undefined,
         baseRepositoryClassName |-> Undefined, transactionTimeout |-> Undefined,
         pagination |-> NoPagination, naming |-> NoNaming, imports |-> NoImports,
         features |-> NoFeatures, typescript |-> NoTypescript])

\* the returned object has the four required keys and no other key
createMinimalConfig(dialect, schemaPath, outputPath, basePath) ==
    [dialect |-> dialect, schemaPath |-> schemaPath,
     outputPath |-> outputPath, basePath |-> basePath,
     logging |-> Undefined, skipConcreteRepositories |-> Undefined,
     baseRepositoryClassName |-> Undefined, transactionTimeout |-> Undefined,
     pagination |-> NoPagination, naming |-> NoNaming, imports |-> NoImports,
     features |-> NoFeatures, typescript |-> NoTypescript]

ExampleSchemaPath == "./src/schema/*.ts"

ExampleOutputPath == "./src/repositories/generated"

ExampleBasePath == "./src/repositories/base"

\* createExampleConfig with a smaller page size in its seed
createExampleConfigSmallPages(dialect) ==
    applyDefaults(
        [dialect |-> dialect, schemaPath |-> Str(ExampleSchemaPath),
         outputPath |-> Str(ExampleOutputPath), basePath |-> Str(ExampleBasePath),
         logging |-> Bool(TRUE), skipConcreteRepositories |-> Undefined,
         baseRepositoryClassName |-> Undefined, transactionTimeout |-> Undefined,
         pagination |-> Pagination(Num(10), Num(100)),
         naming |-> NoNaming, imports |-> NoImports,
         features |-> [t |-> "object", relationships |-> Bool(FALSE),
                       auditTrail |-> Bool(FALSE), validation |-> Bool(FALSE),
                       caching |-> Bool(FALSE)],
         typescript |-> NoTypescript])

createExampleConfig(dialect) ==
    applyDefaults(
        [dialect |-> dialect, schemaPath |-> Str(ExampleSchemaPath),
         outputPath |-> Str(ExampleOutputPath), basePath |-> Str(ExampleBasePath),
         logging |-> Bool(TRUE), skipConcreteRepositories |-> Undefined,
         baseRepositoryClassName |-> Undefined, transactionTimeout |-> Undefined,
         pagination |-> Pagination(Num(20), Num(100)),
         naming |-> NoNaming, imports |-> NoImports,
         features |-> [t |-> "object", relationships |-> Bool(FALSE),
                       auditTrail |-> Bool(FALSE), validation |-> Bool(FALSE),
                       caching |-> Bool(FALSE)],
         typescript |-> NoTypescript])

(***************************************************************************)
(* BaseRepository: the constructor and findPaginated, in the two            *)
(* generations of the class (positional arguments, one options object)     *)
(***************************************************************************)
MaxConfigLimit == 2

MaxPage == 2

MaxLimit == 3

MaxTotal == 3

MaxRows == 1

\* an object known by its identity only (a filter, a transaction handle)
Obj(x) == [t |-> "object", n |-> 0, s |-> x]

\* the config argument of the constructor, absent
NoRepositoryConfig ==
    [t |-> "undefined", transactionTimeout |-> Undefined, defaultLimit |-> Undefined,
     maxLimit |-> Undefined, softDelete |-> Undefined]

RepositoryConfig(d, m) ==
    [t |-> "object", transactionTimeout |-> Undefined, defaultLimit |-> d,
     maxLimit |-> m, softDelete |-> Undefined]

RepositoryTransactionTimeout == 30000

RepositoryDefaultLimit == 20

RepositoryMaxLimit == 100

Forms == {"positional", "options"}

\* this.config with a larger default maxLimit in the second generation
ConstructorDrifted(form, cfg) ==
    IF form = "positional"
    THEN [transactionTimeout |->
              Coalesce(Opt(cfg, "transactionTimeout"), Num(RepositoryTransactionTimeout)),
          defaultLimit |-> Coalesce(Opt(cfg, "defaultLimit"), Num(RepositoryDefaultLimit)),
          maxLimit |-> Coalesce(Opt(cfg, "maxLimit"), Num(RepositoryMaxLimit)),
          softDelete |-> Coalesce(Opt(cfg, "softDelete"), Bool(FALSE))]
    ELSE [transactionTimeout |->
              Coalesce(Opt(cfg, "transactionTimeout"), Num(RepositoryTransactionTimeout)),
          defaultLimit |-> Coalesce(Opt(cfg, "defaultLimit"), Num(RepositoryDefaultLimit)),
          maxLimit |-> Coalesce(Opt(cfg, "maxLimit"), Num(10 * RepositoryMaxLimit))]

\* this.config after new BaseRepository(db, table, cfg)
Constructor(form, cfg) ==
    IF form = "positional"
    THEN [transactionTimeout |->
              Coalesce(Opt(cfg, "transactionTimeout"), Num(RepositoryTransactionTimeout)),
          defaultLimit |-> Coalesce(Opt(cfg, "defaultLimit"), Num(RepositoryDefaultLimit)),
          maxLimit |-> Coalesce(Opt(cfg, "maxLimit"), Num(RepositoryMaxLimit)),
          softDelete |-> Coalesce(Opt(cfg, "softDelete"), Bool(FALSE))]
    ELSE [transactionTimeout |->
              Coalesce(Opt(cfg, "transactionTimeout"), Num(RepositoryTransactionTimeout)),
          defaultLimit |-> Coalesce(Opt(cfg, "defaultLimit"), Num(RepositoryDefaultLimit)),
          maxLimit |-> Coalesce(Opt(cfg, "maxLimit"), Num(RepositoryMaxLimit))]

\* a parameter declared with a default value: only undefined takes it
DefaultParameter(v, d) == IF v.t = "undefined" THEN d ELSE v

\* the arguments of findPaginated; t = "undefined" is the options form
\* called without its options object
NoArguments ==
    [t |-> "undefined", where |-> Undefined, page |-> Undefined,
     limit |-> Undefined, tx |-> Undefined]

Arguments(where, page, limit, tx) ==
    [t |-> "object", where |-> where, page |-> page, limit |-> limit, tx |-> tx]

\* the page before validation
RequestedPage(form, a) ==
    IF form = "positional"
    THEN DefaultParameter(a.page, Num(1))
    ELSE Coalesce(Opt(a, "page"), Num(1))

\* the limit before validation, the configured default limit ignored
RequestedLimitFixedDefault(form, a, cfg) ==
    IF form = "positional"
    THEN DefaultParameter(a.limit, Num(RepositoryDefaultLimit))
    ELSE Coalesce(Opt(a, "limit"), Num(RepositoryDefaultLimit))

\* the limit before validation
RequestedLimit(form, a, cfg) ==
    IF form = "positional"
    THEN DefaultParameter(a.limit, cfg.defaultLimit)
    ELSE Coalesce(Opt(a, "limit"), cfg.defaultLimit)

\* the page floored but not raised to 1
ValidatedPageFloorOnly(page) == MathFloor(page)

ValidatedPage(page) == MathMax(Num(1), MathFloor(page))

ValidatedLimit(limit, cfg) == MathMin(cfg.maxLimit, MathMax(Num(1), MathFloor(limit)))

\* the offset of a page, pages counted from 0
OffsetOneBased(validatedPage, validatedLimit) == JsMul(validatedPage, validatedLimit)

\* the number of rows before the page
Offset(validatedPage, validatedLimit) == JsMul(JsSub(validatedPage, Num(1)), validatedLimit)

TotalPages(total, validatedLimit) == CeilOfQuotient(total, validatedLimit)

\* the object findPaginated returns, hasNext also true on the last page
PaginatedResultInclusive(data, total, validatedPage, validatedLimit) ==
    [data |-> data,
     pagination |->
        [page |-> validatedPage,
         limit |-> validatedLimit,
         total |-> total,
         totalPages |-> TotalPages(total, validatedLimit),
         hasNext |-> Bool(JsLe(validatedPage, TotalPages(total, validatedLimit))),
         hasPrev |-> Bool(JsGt(validatedPage, Num(1)))]]

\* the object findPaginated returns
PaginatedResult(data, total, validatedPage, validatedLimit) ==
    [data |-> data,
     pagination |->
        [page |-> validatedPage,
         limit |-> validatedLimit,
         total |-> total,
         totalPages |-> TotalPages(total, validatedLimit),
         hasNext |-> Bool(JsLt(validatedPage, TotalPages(total, validatedLimit))),
         hasPrev |-> Bool(JsGt(validatedPage, Num(1)))]]

\* the rows a fetch can produce: the arrays <<1, ..., k>>
Rows(k) == [i \in 1..k |-> i]

FetchResults == {Rows(k) : k \in 0..MaxRows}

CountResults == {Num(k) : k \in 0..MaxTotal}

FetchError == Str("fetch failed")

CountError == Str("count failed")

ConfiguredDefaultLimits == {Undefined} \cup {Num(k) : k \in 1..(MaxConfigLimit + 1)}

ConfiguredMaxLimits == {Undefined} \cup {Num(k) : k \in 0..MaxConfigLimit}

RepositoryConfigs ==
    {NoRepositoryConfig}
        \cup {RepositoryConfig(d, m) : d \in ConfiguredDefaultLimits, m \in ConfiguredMaxLimits}

LargeLimit == 10000

RequestedPages == {Undefined, Null, NaN, Half(1)} \cup {Num(k) : k \in (-1)..MaxPage}

RequestedLimits ==
    {Undefined, Null, NaN, Half(1), Num(LargeLimit)} \cup {Num(k) : k \in (-1)..MaxLimit}

Filters == {Undefined, Obj("eq(status, active)")}

Transactions == {Undefined, Obj("tx1")}

\* the caller has no transaction, or one that is open
TransactionStates == {"none", "active"}

\* a caller that has a transaction passes its handle
Handle(state) == IF state = "none" THEN Undefined ELSE Obj("tx1")

\* no call of findPaginated yet
NoCall ==
    [state |-> "idle", args |-> NoArguments, validatedPage |-> Undefined,
     validatedLimit |-> Undefined, offset |-> Undefined]

NoFetch ==
    [state |-> "none", issued |-> 0, where |-> Undefined, limit |-> Undefined,
     offset |-> Undefined, tx |-> Undefined, value |-> <<>>, reason |-> Undefined]

NoCount ==
    [state |-> "none", issued |-> 0, where |-> Undefined, tx |-> Undefined,
     value |-> <<>>, reason |-> Undefined]

NoPromise == [state |-> "none", value |-> <<>>, reason |-> Undefined]

Pending == [state |-> "pending", value |-> <<>>, reason |-> Undefined]

Fulfilled(v) == [state |-> "fulfilled", value |-> <<v>>, reason |-> Undefined]

Rejected(e) == [state |-> "rejected", value |-> <<>>, reason |-> e]

\* neither operation has read the table
NotSeen == [fetch |-> -1, count |-> -1]

NoRepository ==
    [form |-> "positional", args |-> NoRepositoryConfig,
     config |-> Constructor("positional", NoRepositoryConfig)]

IdlePage ==
    /\ repo = NoRepository
    /\ call = NoCall
    /\ fetchOp = NoFetch
    /\ countOp = NoCount
    /\ promiseAll = NoPromise
    /\ outcome = NoPromise
    /\ settled = <<>>
    /\ transaction = "none"
    /\ table = 0
    /\ seen = NotSeen

(***************************************************************************)
(* Candidates handed to validateConfig                                     *)
(***************************************************************************)
DialectValues == {Undefined, Str(""), Str("pg"), Str("mysql"), Str("sqlite"), Str("oracle")}

SchemaPathValues == {Undefined, Str(""), Num(0), Num(5), Str("./s")}

OutputPathValues == {Undefined, Str(""), Num(0), Num(5), Str("./out")}

BasePathValues == {Undefined, Str(""), Num(5), Str("./out"), Str("./base")}

TimeoutValues ==
    {Undefined, Str("fast"), Num(0), Num(ShortTimeout - 1), Num(ShortTimeout),
     Num(LongTimeout), Num(LongTimeout + 1), NaN}

LimitValues ==
    {Undefined, Str("ten"), Num(0), Num(DefaultLimit - 10), Num(DefaultMaxLimit + 100), NaN}

PaginationValues ==
    {NoPagination} \cup {Pagination(d, m) : d \in LimitValues, m \in LimitValues}

\* the candidate with these fields and no other optional field
Candidate(d, sp, op, bp, tt, pg) ==
    [dialect |-> d, schemaPath |-> sp, outputPath |-> op, basePath |-> bp,
     logging |-> Undefined, skipConcreteRepositories |-> Undefined,
     baseRepositoryClassName |-> Undefined,
     transactionTimeout |-> tt, pagination |-> pg,
     naming |-> NoNaming, imports |-> NoImports,
     features |-> NoFeatures, typescript |-> NoTypescript]

NoResult == [isValid |-> FALSE, errors |-> <<>>, warnings |-> <<>>, resolvedConfig |-> <<>>]

(***************************************************************************)
(* The caller: builds a candidate, then validates it                       *)
(***************************************************************************)
Init ==
    /\ \E d \in DialectValues, sp \in SchemaPathValues, op \in OutputPathValues,
          bp \in BasePathValues, tt \in TimeoutValues, pg \in PaginationValues :
            config = Candidate(d, sp, op, bp, tt, pg)
    /\ result = NoResult
    /\ pc = "ready"
    /\ returned = <<>>
    /\ defaultConfig = DEFAULT_CONFIG
    /\ args = <<>>
    /\ shared = {}
    /\ IdlePage

Validate ==
    /\ pc = "ready"
    /\ result' = validateConfig(config)
    /\ pc' = "validated"
    /\ UNCHANGED <<config, returned, defaultConfig, args, shared, pageVars>>

Next == Validate

Spec == Init /\ [][Next]_vars

(***************************************************************************)
(* Configurations handed to applyDefaults: the four required fields and at *)
(* most MaxSupplied optional keys                                          *)
(***************************************************************************)
MaxSupplied == 2

BooleanKeys ==
    {"logging", "skipConcreteRepositories", "naming.usePascalCase",
     "features.relationships", "features.auditTrail", "features.validation",
     "features.caching", "typescript.strictNullChecks",
     "typescript.generateDeclarations"}

TextKeys ==
    {"baseRepositoryClassName", "naming.baseRepositorySuffix", "naming.repositorySuffix",
     "imports.drizzleOrmPath", "imports.schemaImportPath",
     "typescript.target", "typescript.moduleSystem"}

NumberKeys == {"transactionTimeout", "pagination.defaultLimit", "pagination.maxLimit"}

ArrayKeys == {"imports.additionalImports"}

OptionalKeys == BooleanKeys \cup TextKeys \cup NumberKeys \cup ArrayKeys

\* an array holding one import line
OneImport == [t |-> "array", n |-> 1, s |-> "import x"]

\* the values a caller supplies for a key: null, a truthy one, a falsy one
KeyValues(k) ==
    CASE k \in BooleanKeys -> <<Null, Bool(TRUE), Bool(FALSE)>>
      [] k \in TextKeys -> <<Null, Str("custom"), Str("")>>
      [] k \in NumberKeys -> <<Null, Num(7), Num(0)>>
      [] k \in ArrayKeys -> <<Null, OneImport, EmptyArray>>

RECURSIVE KeySets(_)
\* the sets of at most k optional keys
KeySets(k) ==
    IF k = 0
    THEN {{}}
    ELSE LET smaller == KeySets(k - 1)
         IN  smaller \cup {S \cup {x} : S \in smaller, x \in OptionalKeys}

\* the configuration that supplies the keys of S with the values chosen by f;
\* a nested group without supplied key is absent, or empty when emptyGroups
BuildConfig(dialect, S, f, emptyGroups) ==
    LET val(k) == IF k \in S THEN KeyValues(k)[f[k]] ELSE Undefined
        tag(keys) == IF emptyGroups \/ (keys \cap S) # {} THEN "object" ELSE "undefined"
    IN  [dialect |-> dialect, schemaPath |-> Str("./s"),
         outputPath |-> Str("./out"), basePath |-> Str("./base"),
         logging |-> val("logging"),
         skipConcreteRepositories |-> val("skipConcreteRepositories"),
         baseRepositoryClassName |-> val("baseRepositoryClassName"),
         transactionTimeout |-> val("transactionTimeout"),
         pagination |->
            [t |-> tag({"pagination.defaultLimit", "pagination.maxLimit"}),
             defaultLimit |-> val("pagination.defaultLimit"),
             maxLimit |-> val("pagination.maxLimit")],
         naming |->
            [t |-> tag({"naming.baseRepositorySuffix", "naming.repositorySuffix",
                        "naming.usePascalCase"}),
             baseRepositorySuffix |-> val("naming.baseRepositorySuffix"),
             repositorySuffix |-> val("naming.repositorySuffix"),
             usePascalCase |-> val("naming.usePascalCase")],
         imports |->
            [t |-> tag({"imports.drizzleOrmPath", "imports.schemaImportPath",
                        "imports.additionalImports"}),
             drizzleOrmPath |-> val("imports.drizzleOrmPath"),
             schemaImportPath |-> val("imports.schemaImportPath"),
             additionalImports |-> val("imports.additionalImports")],
         features |->
            [t |-> tag({"features.relationships", "features.auditTrail",
                        "features.validation", "features.caching"}),
             relationships |-> val("features.relationships"),
             auditTrail |-> val("features.auditTrail"),
             validation |-> val("features.validation"),
             caching |-> val("features.caching")],
         typescript |->
            [t |-> tag({"typescript.strictNullChecks", "typescript.target",
                        "typescript.moduleSystem", "typescript.generateDeclarations"}),
             strictNullChecks |-> val("typescript.strictNullChecks"),
             target |-> val("typescript.target"),
             moduleSystem |-> val("typescript.moduleSystem"),
             generateDeclarations |-> val("typescript.generateDeclarations")]]

DatabaseDialect == {Str("pg"), Str("mysql"), Str("sqlite")}

(***************************************************************************)
(* Calls of the four operations, in any order and any number of times      *)
(***************************************************************************)
CallValidateConfig ==
    /\ result' = validateConfig(config)
    /\ pc' = "validated"
    /\ args' = <<>>
    /\ UNCHANGED <<config, returned, defaultConfig, shared, pageVars>>

\* applyDefaults merging the defaults into its argument and returning it
CallApplyDefaultsInPlace ==
    /\ config' = applyDefaults(config)
    /\ returned' = <<applyDefaults(config)>>
    /\ pc' = "applied"
    /\ args' = <<>>
    /\ shared' = MutableParts
    /\ UNCHANGED <<result, defaultConfig, pageVars>>

CallApplyDefaults ==
    /\ returned' = <<applyDefaults(config)>>
    /\ pc' = "applied"
    /\ args' = <<>>
    /\ shared' = SharedParts(config)
    /\ UNCHANGED <<config, result, defaultConfig, pageVars>>

MinimalSchemaPaths == {Str(""), Str("./s")}

MinimalOutputPaths == {Str(""), Str("./out")}

MinimalBasePaths == {Str(""), Str("./out"), Str("./base")}

CallCreateMinimalConfig ==
    /\ \E d \in DatabaseDialect, sp \in MinimalSchemaPaths,
          op \in MinimalOutputPaths, bp \in MinimalBasePaths :
            /\ returned' = <<createMinimalConfig(d, sp, op, bp)>>
            /\ args' = <<d, sp, op, bp>>
    /\ pc' = "minimal"
    /\ shared' = {}
    /\ UNCHANGED <<config, result, defaultConfig, pageVars>>

CallCreateExampleConfig ==
    /\ \E d \in DatabaseDialect :
            /\ returned' = <<createExampleConfig(d)>>
            /\ args' = <<d>>
    /\ pc' = "example"
    /\ shared' = {}
    /\ UNCHANGED <<config, result, defaultConfig, pageVars>>

\* applyDefaults over the configurations with optional keys
InitDefaults ==
    /\ \E S \in KeySets(MaxSupplied) :
        \E d \in DatabaseDialect, f \in [S -> 1..3], e \in BOOLEAN :
            config = BuildConfig(d, S, f, e)
    /\ result = NoResult
    /\ pc = "ready"
    /\ returned = <<>>
    /\ defaultConfig = DEFAULT_CONFIG
    /\ args = <<>>
    /\ shared = {}
    /\ IdlePage

NextDefaults == CallApplyDefaults

SpecDefaults == InitDefaults /\ [][NextDefaults]_vars

\* pagination groups of the caller that uses all four operations
OpsPaginationValues ==
    {NoPagination,
     Pagination(Num(DefaultMaxLimit + 100), Undefined),
     Pagination(Num(DefaultLimit - 10), Num(DefaultMaxLimit + 100))}

InitOps ==
    /\ \E d \in {Undefined, Str("pg")}, bp \in {Str("./out"), Str("./base")},
          tt \in {Undefined, Num(ShortTimeout - 1)}, pg \in OpsPaginationValues :
            config = Candidate(d, Str("./s"), Str("./out"), bp, tt, pg)
    /\ result = NoResult
    /\ pc = "ready"
    /\ returned = <<>>
    /\ defaultConfig = DEFAULT_CONFIG
    /\ args = <<>>
    /\ shared = {}
    /\ IdlePage

NextOps ==
    \/ CallValidateConfig
    \/ CallApplyDefaults
    \/ CallCreateMinimalConfig
    \/ CallCreateExampleConfig

SpecOps == InitOps /\ [][NextOps]_vars

(***************************************************************************)
(* A caller that changes a nested object of a configuration after          *)
(* applyDefaults has returned                                              *)
(***************************************************************************)
MaxImports == 2

\* the list after push(...)
Pushed(list) == [t |-> "array", n |-> list.n + 1, s |-> "import y"]

\* the nested object of cfg can be changed: it exists (and the list has
\* room for one more import)
CanChange(cfg, part) ==
    CASE part = "imports.additionalImports" ->
            /\ Opt(cfg.imports, "additionalImports").t = "array"
            /\ cfg.imports.additionalImports.n < MaxImports
      [] OTHER -> cfg[part].t = "object"

\* cfg after the change of one nested object: a push onto the list, or the
\* deletion of one key of a group
Changed(cfg, part) ==
    CASE part = "pagination" -> [cfg EXCEPT !.pagination.maxLimit = Undefined]
      [] part = "naming" -> [cfg EXCEPT !.naming.usePascalCase = Undefined]
      [] part = "imports" -> [cfg EXCEPT !.imports.schemaImportPath = Undefined]
      [] part = "imports.additionalImports" ->
            [cfg EXCEPT !.imports.additionalImports = Pushed(@)]
      [] part = "features" -> [cfg EXCEPT !.features.caching = Undefined]
      [] part = "typescript" -> [cfg EXCEPT !.typescript.target = Undefined]

\* the caller changes a nested object of the configuration it got back
ChangeReturned ==
    /\ pc = "applied"
    /\ \E part \in MutableParts :
        /\ CanChange(returned[1], part)
        /\ returned' = <<Changed(returned[1], part)>>
        /\ config' = IF part \in shared THEN Changed(config, part) ELSE config
    /\ pc' = "changed returned"
    /\ UNCHANGED <<result, defaultConfig, args, shared, pageVars>>

\* the caller changes a nested object of the candidate it handed in
ChangeCandidate ==
    /\ pc = "applied"
    /\ \E part \in MutableParts :
        /\ CanChange(config, part)
        /\ config' = Changed(config, part)
        /\ returned' = IF part \in shared THEN <<Changed(returned[1], part)>> ELSE returned
    /\ pc' = "changed candidate"
    /\ UNCHANGED <<result, defaultConfig, args, shared, pageVars>>

\* candidates with at most one optional key
InitShare ==
    /\ \E S \in KeySets(1) :
        \E d \in DatabaseDialect, f \in [S -> 1..3], e \in BOOLEAN :
            config = BuildConfig(d, S, f, e)
    /\ result = NoResult
    /\ pc = "ready"
    /\ returned = <<>>
    /\ defaultConfig = DEFAULT_CONFIG
    /\ args = <<>>
    /\ shared = {}
    /\ IdlePage

NextShare ==
    \/ CallApplyDefaults
    \/ ChangeReturned
    \/ ChangeCandidate

SpecShare == InitShare /\ [][NextShare]_vars

(***************************************************************************)
(* findPaginated as a process: the call, its two operations, Promise.all   *)
(***************************************************************************)
\* findPaginated up to its await: validates the window and issues the fetch
\* and the count
FindPaginatedWith(a) ==
    LET validatedPage == ValidatedPage(RequestedPage(repo.form, a))
        validatedLimit == ValidatedLimit(RequestedLimit(repo.form, a, repo.config), repo.config)
        offset == Offset(validatedPage, validatedLimit)
    IN  /\ call.state = "idle"
        /\ call' = [state |-> "awaiting", args |-> a, validatedPage |-> validatedPage,
                    validatedLimit |-> validatedLimit, offset |-> offset]
        /\ fetchOp' = [state |-> "pending", issued |-> fetchOp.issued + 1,
                       where |-> Opt(a, "where"), limit |-> validatedLimit,
                       offset |-> offset, tx |-> Opt(a, "tx"),
                       value |-> <<>>, reason |-> Undefined]
        /\ countOp' = [state |-> "pending", issued |-> countOp.issued + 1,
                       where |-> Opt(a, "where"), tx |-> Opt(a, "tx"),
                       value |-> <<>>, reason |-> Undefined]
        /\ promiseAll' = Pending
        /\ outcome' = Pending
        /\ UNCHANGED <<repo, settled, transaction, tableVars, configVars>>

FindPaginated ==
    /\ call.state = "idle"
    /\ \/ \E where \in Filters, page \in RequestedPages, limit \in RequestedLimits,
             tx \in Transactions :
               /\ tx = Handle(transaction)
               /\ FindPaginatedWith(Arguments(where, page, limit, tx))
       \/ /\ repo.form = "options"
          /\ transaction = "none"
          /\ FindPaginatedWith(NoArguments)

\* a join that settles with the first promise to settle
PromiseAllAfterFirst(fetch, count) ==
    CASE promiseAll.state # "pending" -> promiseAll
      [] fetch.state = "rejected" -> Rejected(fetch.reason)
      [] count.state = "rejected" -> Rejected(count.reason)
      [] fetch.state = "fulfilled" \/ count.state = "fulfilled" ->
            Fulfilled(<<IF fetch.state = "fulfilled" THEN fetch.value[1] ELSE <<>>,
                        IF count.state = "fulfilled" THEN count.value[1] ELSE Num(0)>>)
      [] OTHER -> promiseAll

\* a join that rejects with an error of its own
PromiseAllAfterWrapped(fetch, count) ==
    CASE promiseAll.state # "pending" -> promiseAll
      [] fetch.state = "rejected" \/ count.state = "rejected" ->
            Rejected(Str("pagination failed"))
      [] fetch.state = "fulfilled" /\ count.state = "fulfilled" ->
            Fulfilled(<<fetch.value[1], count.value[1]>>)
      [] OTHER -> promiseAll

\* Promise.all after one of its two promises has settled
PromiseAllAfter(fetch, count) ==
    CASE promiseAll.state # "pending" -> promiseAll
      [] fetch.state = "rejected" -> Rejected(fetch.reason)
      [] count.state = "rejected" -> Rejected(count.reason)
      [] fetch.state = "fulfilled" /\ count.state = "fulfilled" ->
            Fulfilled(<<fetch.value[1], count.value[1]>>)
      [] OTHER -> promiseAll

\* the states in which a failed operation can leave the transaction it ran in
AfterFailure(tx) == IF tx = Undefined THEN {transaction} ELSE {transaction, "aborted"}

FetchFulfils ==
    /\ fetchOp.state = "pending"
    /\ \E data \in FetchResults :
        LET fetch == [fetchOp EXCEPT !.state = "fulfilled", !.value = <<data>>]
        IN  /\ fetchOp' = fetch
            /\ promiseAll' = PromiseAllAfter(fetch, countOp)
    /\ settled' = Append(settled, "fetch")
    /\ UNCHANGED <<repo, call, countOp, outcome, transaction, tableVars, configVars>>

FetchRejects ==
    /\ fetchOp.state = "pending"
    /\ LET fetch == [fetchOp EXCEPT !.state = "rejected", !.reason = FetchError]
       IN  /\ fetchOp' = fetch
           /\ promiseAll' = PromiseAllAfter(fetch, countOp)
    /\ settled' = Append(settled, "fetch")
    /\ transaction' \in AfterFailure(fetchOp.tx)
    /\ UNCHANGED <<repo, call, countOp, outcome, tableVars, configVars>>

CountFulfils ==
    /\ countOp.state = "pending"
    /\ \E total \in CountResults :
        LET count == [countOp EXCEPT !.state = "fulfilled", !.value = <<total>>]
        IN  /\ countOp' = count
            /\ promiseAll' = PromiseAllAfter(fetchOp, count)
    /\ settled' = Append(settled, "count")
    /\ UNCHANGED <<repo, call, fetchOp, outcome, transaction, tableVars, configVars>>

CountRejects ==
    /\ countOp.state = "pending"
    /\ LET count == [countOp EXCEPT !.state = "rejected", !.reason = CountError]
       IN  /\ countOp' = count
           /\ promiseAll' = PromiseAllAfter(fetchOp, count)
    /\ settled' = Append(settled, "count")
    /\ transaction' \in AfterFailure(countOp.tx)
    /\ UNCHANGED <<repo, call, fetchOp, outcome, tableVars, configVars>>

\* findPaginated after its await, issuing both operations once more after
\* a failure
ResumeWithRetry ==
    /\ call.state = "awaiting"
    /\ promiseAll.state \in {"fulfilled", "rejected"}
    /\ IF promiseAll.state = "rejected" /\ fetchOp.issued < 2
       THEN /\ fetchOp' = [fetchOp EXCEPT !.state = "pending", !.issued = @ + 1,
                                          !.value = <<>>, !.reason = Undefined]
            /\ countOp' = [countOp EXCEPT !.state = "pending", !.issued = @ + 1,
                                          !.value = <<>>, !.reason = Undefined]
            /\ promiseAll' = Pending
            /\ UNCHANGED <<call, outcome>>
       ELSE /\ call' = [call EXCEPT !.state = "returned"]
            /\ outcome' =
                    IF promiseAll.state = "fulfilled"
                    THEN Fulfilled(PaginatedResult(promiseAll.value[1][1],
                                                   promiseAll.value[1][2],
                                                   call.validatedPage, call.validatedLimit))
                    ELSE Rejected(promiseAll.reason)
            /\ UNCHANGED <<fetchOp, countOp, promiseAll>>
    /\ UNCHANGED <<repo, settled, transaction, tableVars, configVars>>

\* findPaginated after its await, rolling the caller's transaction back
\* after a failure
ResumeRollingBack ==
    /\ call.state = "awaiting"
    /\ promiseAll.state \in {"fulfilled", "rejected"}
    /\ call' = [call EXCEPT !.state = "returned"]
    /\ outcome' =
            IF promiseAll.state = "fulfilled"
            THEN Fulfilled(PaginatedResult(promiseAll.value[1][1], promiseAll.value[1][2],
                                           call.validatedPage, call.validatedLimit))
            ELSE Rejected(promiseAll.reason)
    /\ transaction' =
            IF promiseAll.state = "rejected" /\ Opt(call.args, "tx") # Undefined
            THEN "rolled back"
            ELSE transaction
    /\ UNCHANGED <<repo, fetchOp, countOp, promiseAll, settled, tableVars, configVars>>

\* findPaginated after its await
Resume ==
    /\ call.state = "awaiting"
    /\ promiseAll.state \in {"fulfilled", "rejected"}
    /\ call' = [call EXCEPT !.state = "returned"]
    /\ outcome' =
            IF promiseAll.state = "fulfilled"
            THEN Fulfilled(PaginatedResult(promiseAll.value[1][1], promiseAll.value[1][2],
                                           call.validatedPage, call.validatedLimit))
            ELSE Rejected(promiseAll.reason)
    /\ UNCHANGED <<repo, fetchOp, countOp, promiseAll, settled, transaction, tableVars, configVars>>

\* a repository after construction; the configuration module is not used
InitPage ==
    /\ \E form \in Forms, cfg \in RepositoryConfigs :
            repo = [form |-> form, args |-> cfg, config |-> Constructor(form, cfg)]
    /\ call = NoCall
    /\ fetchOp = NoFetch
    /\ countOp = NoCount
    /\ promiseAll = NoPromise
    /\ outcome = NoPromise
    /\ settled = <<>>
    /\ transaction \in TransactionStates
    /\ table = 0
    /\ seen = NotSeen
    /\ config = Candidate(Str("pg"), Str("./s"), Str("./out"), Str("./base"),
                          Undefined, NoPagination)
    /\ result = NoResult
    /\ pc = "ready"
    /\ returned = <<>>
    /\ defaultConfig = DEFAULT_CONFIG
    /\ args = <<>>
    /\ shared = {}

NextPage ==
    \/ FindPaginated
    \/ FetchFulfils
    \/ FetchRejects
    \/ CountFulfils
    \/ CountRejects
    \/ Resume

SpecPage == InitPage /\ [][NextPage]_vars

(***************************************************************************)
(* findPaginated over a table that another process changes.  The concrete  *)
(* fetch and count are not part of BaseRepository: here the fetch returns  *)
(* the slice [offset, offset + limit) of the rows that match the filter,   *)
(* and the count returns their number, each at the time of its own read.   *)
(* The table holds the rows 1..table; an insert adds row table + 1 and a   *)
(* delete removes row table.                                               *)
(***************************************************************************)
\* the slice of at most limit rows after the first offset rows of n rows
Window(n, offset, limit) ==
    LET rest == IF n - offset > 0 THEN n - offset ELSE 0
        k == IF limit < rest THEN limit ELSE rest
    IN  [i \in 1..k |-> offset + i]

\* the fetch is a query the database can run: its limit and its offset are
\* whole numbers, none negative
Readable(op) ==
    /\ op.limit.t = "number" /\ op.limit.s = "" /\ op.limit.n >= 0
    /\ op.offset.t = "number" /\ op.offset.s = "" /\ op.offset.n >= 0

\* the fetch reads the table and fulfils with its slice
FetchReads ==
    /\ fetchOp.state = "pending"
    /\ Readable(fetchOp)
    /\ LET data == Window(table, fetchOp.offset.n, fetchOp.limit.n)
           fetch == [fetchOp EXCEPT !.state = "fulfilled", !.value = <<data>>]
       IN  /\ fetchOp' = fetch
           /\ promiseAll' = PromiseAllAfter(fetch, countOp)
    /\ settled' = Append(settled, "fetch")
    /\ seen' = [seen EXCEPT !.fetch = table]
    /\ UNCHANGED <<repo, call, countOp, outcome, transaction, table, configVars>>

\* the count reads the table and fulfils with the number of its rows
CountReads ==
    /\ countOp.state = "pending"
    /\ LET count == [countOp EXCEPT !.state = "fulfilled", !.value = <<Num(table)>>]
       IN  /\ countOp' = count
           /\ promiseAll' = PromiseAllAfter(fetchOp, count)
    /\ settled' = Append(settled, "count")
    /\ seen' = [seen EXCEPT !.count = table]
    /\ UNCHANGED <<repo, call, fetchOp, outcome, transaction, table, configVars>>

\* another process inserts a row while the call is in flight
InsertRow ==
    /\ call.state = "awaiting"
    /\ table < MaxTotal
    /\ table' = table + 1
    /\ UNCHANGED <<repo, call, fetchOp, countOp, promiseAll, outcome, settled,
                   transaction, seen, configVars>>

\* another process deletes a row while the call is in flight
DeleteRow ==
    /\ call.state = "awaiting"
    /\ table > 0
    /\ table' = table - 1
    /\ UNCHANGED <<repo, call, fetchOp, countOp, promiseAll, outcome, settled,
                   transaction, seen, configVars>>

\* the repositories of the calls over the table: one with the built-in
\* limits and one with configured limits
TableRepositoryConfigs == {NoRepositoryConfig, RepositoryConfig(Num(1), Num(MaxConfigLimit))}

\* a repository after construction over a table of some rows, no
\* transaction open
InitTable ==
    /\ \E form \in Forms, cfg \in TableRepositoryConfigs :
            repo = [form |-> form, args |-> cfg, config |-> Constructor(form, cfg)]
    /\ call = NoCall
    /\ fetchOp = NoFetch
    /\ countOp = NoCount
    /\ promiseAll = NoPromise
    /\ outcome = NoPromise
    /\ settled = <<>>
    /\ transaction = "none"
    /\ table \in 0..MaxTotal
    /\ seen = NotSeen
    /\ config = Candidate(Str("pg"), Str("./s"), Str("./out"), Str("./base"),
                          Undefined, NoPagination)
    /\ result = NoResult
    /\ pc = "ready"
    /\ returned = <<>>
    /\ defaultConfig = DEFAULT_CONFIG
    /\ args = <<>>
    /\ shared = {}

NextTable ==
    \/ FindPaginated
    \/ FetchReads
    \/ FetchRejects
    \/ CountReads
    \/ CountRejects
    \/ InsertRow
    \/ DeleteRow
    \/ Resume

SpecTable == InitTable /\ [][NextTable]_vars

(***************************************************************************)
(* Properties of validateConfig                                            *)
(***************************************************************************)
RequiredFields == {"dialect", "schemaPath", "outputPath", "basePath"}

PathFields == {"schemaPath", "outputPath", "basePath"}

Validated == pc = "validated"

\* number of entries of list with this field and this type
Count(list, field, type) ==
    Cardinality({i \in 1..Len(list) : list[i] = Entry(field, type)})

\* number of entries of list with this field
CountField(list, field) ==
    Cardinality({i \in 1..Len(list) : list[i].field = field})

\* number of entries of list with this type
CountType(list, type) ==
    Cardinality({i \in 1..Len(list) : list[i].type = type})

Present(v) == v # Undefined

\* v is a number greater than zero
PositiveNumber(v) == v.t = "number" /\ ~IsNaN(v) /\ v.n > 0

\* v is of another type than number, or is a number at most zero
NotNumberOrNotPositive(v) == v.t # "number" \/ (~IsNaN(v) /\ v.n <= 0)

\* C1: every missing required field makes the result invalid, with exactly
\* one 'required' error for that field and no resolved configuration.
C1_MissingRequired ==
    Validated =>
        \A f \in RequiredFields :
            ~Present(config[f]) =>
                /\ ~result.isValid
                /\ Count(result.errors, f, "required") = 1
                /\ result.resolvedConfig = <<>>

\* two required fields are missing and two 'required' errors are reported
C1_Witness ==
    /\ Validated
    /\ ~Present(config.dialect)
    /\ ~Present(config.basePath)
    /\ Present(config.schemaPath)
    /\ CountType(result.errors, "required") >= 2

\* C2: the resolved configuration of a valid candidate has
\* pagination.defaultLimit <= pagination.maxLimit, also when only one of the
\* two limits is supplied and the other comes from the defaults.
C2_ResolvedLimitsOrdered ==
    (Validated /\ result.isValid) =>
        LET p == result.resolvedConfig[1].pagination
        IN  (~IsNaN(p.defaultLimit) /\ ~IsNaN(p.maxLimit)) =>
                p.defaultLimit.n <= p.maxLimit.n

C4_Original ==
    Validated =>
        ((Truthy(config.outputPath) /\ Truthy(config.basePath)
          /\ config.outputPath = config.basePath) =>
            CountType(result.errors, "conflict") = 1)

\* C4 amended: equal non-empty outputPath and basePath give exactly one
\* 'conflict' error on field 'outputPath', whatever the other fields hold; the
\* only other 'conflict' error there can be is the one on 'pagination'.
C4_PathConflict ==
    Validated =>
        ((Truthy(config.outputPath) /\ Truthy(config.basePath)
          /\ config.outputPath = config.basePath) =>
            /\ Count(result.errors, "outputPath", "conflict") = 1
            /\ CountType(result.errors, "conflict")
                 = 1 + Count(result.errors, "pagination", "conflict"))

\* equal paths together with conflicting pagination limits
C4_Witness ==
    /\ Validated
    /\ config.outputPath = Str("./out")
    /\ config.basePath = Str("./out")
    /\ CountType(result.errors, "conflict") = 2

\* C5: both limits present with defaultLimit > maxLimit give exactly one
\* error on field 'pagination', of type 'conflict'; defaultLimit <= maxLimit
\* or an absent limit gives no error on field 'pagination'.
C5_LimitConflict ==
    Validated =>
        LET d == Opt(config.pagination, "defaultLimit")
            m == Opt(config.pagination, "maxLimit")
            bothNumbers == d.t = "number" /\ m.t = "number" /\ ~IsNaN(d) /\ ~IsNaN(m)
        IN  /\ (bothNumbers /\ d.n > m.n) =>
                    /\ CountField(result.errors, "pagination") = 1
                    /\ Count(result.errors, "pagination", "conflict") = 1
            /\ ((bothNumbers /\ d.n <= m.n) \/ ~Present(d) \/ ~Present(m)) =>
                    CountField(result.errors, "pagination") = 0

\* conflicting limits were validated
C5_Witness ==
    /\ Validated
    /\ config.pagination = Pagination(Num(DefaultMaxLimit + 100), Num(DefaultLimit - 10))
    /\ Count(result.errors, "pagination", "conflict") = 1

\* C6: isValid is true exactly when errors is empty; warnings do not count.
C6_ValidIffNoErrors ==
    Validated => (result.isValid <=> Len(result.errors) = 0)

\* a valid result that carries a warning
C6_Witness ==
    /\ Validated
    /\ result.isValid
    /\ Len(result.warnings) > 0

\* C7: resolvedConfig is present exactly when isValid, and is then
\* applyDefaults of the candidate.
C7_ResolvedIffValid ==
    Validated =>
        /\ (result.resolvedConfig # <<>>) <=> result.isValid
        /\ result.isValid => result.resolvedConfig = <<applyDefaults(config)>>
        /\ ~result.isValid => result.resolvedConfig = <<>>

\* a valid candidate with a partly filled pagination group was resolved
C7_Witness ==
    /\ Validated
    /\ result.isValid
    /\ config.pagination.t = "object"
    /\ Len(result.resolvedConfig) = 1

\* C8: the only warning is one 'performance' warning on transactionTimeout,
\* given exactly when the value is a positive number below 1000 or above
\* 300000; a timeout never gets both an error and a warning.
C8_TimeoutWarning ==
    Validated =>
        LET tt == config.transactionTimeout
            outOfRange == PositiveNumber(tt) /\ (tt.n < ShortTimeout \/ tt.n > LongTimeout)
        IN  /\ Len(result.warnings) = (IF outOfRange THEN 1 ELSE 0)
            /\ \A i \in 1..Len(result.warnings) :
                    result.warnings[i] = Entry("transactionTimeout", "performance")
            /\ ~(Len(result.warnings) > 0
                 /\ CountField(result.errors, "transactionTimeout") > 0)

\* a short timeout with all required fields valid: valid, one warning
C8_Witness ==
    /\ Validated
    /\ config.transactionTimeout = Num(ShortTimeout - 1)
    /\ result.isValid
    /\ result.warnings = <<Entry("transactionTimeout", "performance")>>

NumericFields(c) ==
    [f \in {"transactionTimeout", "pagination.defaultLimit", "pagination.maxLimit"} |->
        CASE f = "transactionTimeout" -> c.transactionTimeout
          [] f = "pagination.defaultLimit" -> Opt(c.pagination, "defaultLimit")
          [] f = "pagination.maxLimit" -> Opt(c.pagination, "maxLimit")]

Get(c, k) ==
    CASE k = "logging" -> c.logging
      [] k = "skipConcreteRepositories" -> c.skipConcreteRepositories
      [] k = "baseRepositoryClassName" -> c.baseRepositoryClassName
      [] k = "transactionTimeout" -> c.transactionTimeout
      [] k = "pagination.defaultLimit" -> Opt(c.pagination, "defaultLimit")
      [] k = "pagination.maxLimit" -> Opt(c.pagination, "maxLimit")
      [] k = "naming.baseRepositorySuffix" -> Opt(c.naming, "baseRepositorySuffix")
      [] k = "naming.repositorySuffix" -> Opt(c.naming, "repositorySuffix")
      [] k = "naming.usePascalCase" -> Opt(c.naming, "usePascalCase")
      [] k = "imports.drizzleOrmPath" -> Opt(c.imports, "drizzleOrmPath")
      [] k = "imports.schemaImportPath" -> Opt(c.imports, "schemaImportPath")
      [] k = "imports.additionalImports" -> Opt(c.imports, "additionalImports")
      [] k = "features.relationships" -> Opt(c.features, "relationships")
      [] k = "features.auditTrail" -> Opt(c.features, "auditTrail")
      [] k = "features.validation" -> Opt(c.features, "validation")
      [] k = "features.caching" -> Opt(c.features, "caching")
      [] k = "typescript.strictNullChecks" -> Opt(c.typescript, "strictNullChecks")
      [] k = "typescript.target" -> Opt(c.typescript, "target")
      [] k = "typescript.moduleSystem" -> Opt(c.typescript, "moduleSystem")
      [] k = "typescript.generateDeclarations" -> Opt(c.typescript, "generateDeclarations")

\* the documented default of each optional key
DocumentedDefault(k) ==
    CASE k = "logging" -> Bool(TRUE)
      [] k = "skipConcreteRepositories" -> Bool(FALSE)
      [] k = "baseRepositoryClassName" -> Str("BaseRepository")
      [] k = "transactionTimeout" -> Num(30000)
      [] k = "pagination.defaultLimit" -> Num(20)
      [] k = "pagination.maxLimit" -> Num(100)
      [] k = "naming.baseRepositorySuffix" -> Str("Repository")
      [] k = "naming.repositorySuffix" -> Str("Repository")
      [] k = "naming.usePascalCase" -> Bool(TRUE)
      [] k = "imports.drizzleOrmPath" -> Str("drizzle-orm")
      [] k = "imports.schemaImportPath" -> Str("../schema")
      [] k = "imports.additionalImports" -> EmptyArray
      [] k = "features.relationships" -> Bool(FALSE)
      [] k = "features.auditTrail" -> Bool(FALSE)
      [] k = "features.validation" -> Bool(FALSE)
      [] k = "features.caching" -> Bool(FALSE)
      [] k = "typescript.strictNullChecks" -> Bool(TRUE)
      [] k = "typescript.target" -> Str("ES2022")
      [] k = "typescript.moduleSystem" -> Str("ESM")
      [] k = "typescript.generateDeclarations" -> Bool(TRUE)

\* the caller gives the key a value (null counts as not given, as for ??)
Supplied(c, k) == Get(c, k) \notin {Undefined, Null}

Groups == {"pagination", "naming", "imports", "features", "typescript"}

\* C11: applyDefaults is idempotent on configurations that have the four
\* required fields: applying it to its own output gives that output again.
C11_Idempotent ==
    pc = "applied" => applyDefaults(returned[1]) = returned[1]

\* applyDefaults filled a partly supplied pagination group
C11_Witness ==
    /\ pc = "applied"
    /\ Supplied(config, "pagination.defaultLimit")
    /\ ~Supplied(config, "pagination.maxLimit")
    /\ returned[1] # config
    /\ returned[1].pagination.maxLimit = Num(100)

\* C12: in applyDefaults(c) every optional key holds the caller's value when
\* c supplies it and the documented default otherwise, key by key inside the
\* nested groups; the four required fields are copied unchanged.
C12_KeyByKeyDefaults ==
    pc = "applied" =>
        LET r == returned[1]
        IN  /\ \A k \in OptionalKeys :
                    Get(r, k) = (IF Supplied(config, k) THEN Get(config, k)
                                 ELSE DocumentedDefault(k))
            /\ \A g \in Groups : r[g].t = "object"
            /\ \A f \in RequiredFields : r[f] = config[f]

\* a group that supplies one falsy key keeps it and gets the other defaults
C12_Witness ==
    /\ pc = "applied"
    /\ config.naming.t = "object"
    /\ config.naming.usePascalCase = Bool(FALSE)
    /\ ~Supplied(config, "naming.repositorySuffix")
    /\ returned[1].naming.usePascalCase = Bool(FALSE)
    /\ returned[1].naming.repositorySuffix = Str("Repository")
    /\ returned[1].transactionTimeout = Num(30000)

\* C13: no call of validateConfig, applyDefaults, createMinimalConfig or
\* createExampleConfig changes the candidate it was given or DEFAULT_CONFIG.
C13_ArgumentsAndDefaultsUnchanged ==
    [][config' = config /\ defaultConfig' = defaultConfig]_vars

\* validateConfig and then applyDefaults were called on a candidate that
\* applyDefaults had to complete
C13_Witness ==
    /\ pc = "applied"
    /\ result = validateConfig(config)
    /\ result.isValid
    /\ returned = <<applyDefaults(config)>>
    /\ returned[1] # config
    /\ defaultConfig = DEFAULT_CONFIG

\* C14: validateConfig accepts whatever createMinimalConfig returns, for every
\* dialect and all path texts.
C14_MinimalIsValid ==
    pc = "minimal" => validateConfig(returned[1]).isValid

\* C15: createMinimalConfig returns the four required fields with the given
\* values and no optional field, neither supplied nor defaulted.
C15_MinimalHasOnlyRequired ==
    pc = "minimal" =>
        LET r == returned[1]
        IN  /\ r.dialect = args[1]
            /\ r.schemaPath = args[2]
            /\ r.outputPath = args[3]
            /\ r.basePath = args[4]
            /\ \A k \in OptionalKeys : Get(r, k) = Undefined
            /\ \A g \in Groups : r[g].t = "undefined"

\* createMinimalConfig returned for distinct non-empty paths
C15_Witness ==
    /\ pc = "minimal"
    /\ args = <<Str("sqlite"), Str("./s"), Str("./out"), Str("./base")>>
    /\ returned[1].dialect = Str("sqlite")
    /\ returned[1].transactionTimeout = Undefined

\* C16: createExampleConfig(d) equals applyDefaults of the minimal
\* configuration with the three illustrative paths; every optional key holds
\* its documented default and the dialect is d.
C16_ExampleIsDefaultedMinimal ==
    pc = "example" =>
        LET r == returned[1]
        IN  /\ r = applyDefaults(createMinimalConfig(args[1], Str(ExampleSchemaPath),
                                                     Str(ExampleOutputPath),
                                                     Str(ExampleBasePath)))
            /\ \A k \in OptionalKeys : Get(r, k) = DocumentedDefault(k)
            /\ r.dialect = args[1]

\* createExampleConfig returned for mysql
C16_Witness ==
    /\ pc = "example"
    /\ args = <<Str("mysql")>>
    /\ returned[1].dialect = Str("mysql")
    /\ returned[1].pagination = Pagination(Num(20), Num(100))

(***************************************************************************)
(* Properties of findPaginated                                             *)
(***************************************************************************)
IsInteger(v) == v.t = "number" /\ v.s = ""

\* the call has issued its fetch and its count
Called == call.state # "idle"

\* the call has returned a result
Returned == outcome.state = "fulfilled"

\* the call has failed
Failed == outcome.state = "rejected"

\* the pagination part of the returned result
Reported == outcome.value[1].pagination

\* the argument of the call under a name, undefined when it is left out
Requested(key) == Opt(call.args, key)

\* a failure of the call is the failure of one of its two operations
FailsOnlyWithAnOperation ==
    Failed =>
        \/ fetchOp.state = "rejected" /\ outcome.reason = fetchOp.reason
        \/ countOp.state = "rejected" /\ outcome.reason = countOp.reason

\* C17: for every requested limit and every repository configuration the
\* limit passed to the fetch and reported in pagination.limit lies in
\* 1..maxLimit; a request above maxLimit gets maxLimit, a request below 1
\* gets 1, and no requested limit is rejected.
C17_LimitWithinRange ==
    Called =>
        /\ IsInteger(fetchOp.limit)
        /\ 1 <= fetchOp.limit.n
        /\ fetchOp.limit.n <= repo.config.maxLimit.n
        /\ Returned => Reported.limit = fetchOp.limit
        /\ (IsInteger(Requested("limit")) /\ Requested("limit").n > repo.config.maxLimit.n)
                => fetchOp.limit = repo.config.maxLimit
        /\ (IsInteger(Requested("limit")) /\ Requested("limit").n < 1)
                => fetchOp.limit = Num(1)
        /\ FailsOnlyWithAnOperation

\* C18: for every requested page p that is an integer or left unset, the
\* call never fails because of p and works with page max(1, p), 1 when
\* unset; with page 0 the fetch and the result are those of page 1.
C18_PageClamped ==
    LET p == Requested("page")
        expected == IF p.t = "undefined" \/ p.n < 1 THEN Num(1) ELSE p
    IN  (Called /\ (p.t = "undefined" \/ IsInteger(p))) =>
            /\ call.validatedPage = expected
            /\ Returned => Reported.page = expected
            /\ FailsOnlyWithAnOperation
            /\ p = Num(0) =>
                /\ fetchOp.limit = call.validatedLimit
                /\ fetchOp.offset = Offset(Num(1), call.validatedLimit)
                /\ Returned =>
                    outcome.value[1] =
                        PaginatedResult(fetchOp.value[1], countOp.value[1],
                                        Num(1), call.validatedLimit)

C18_Witness ==
    /\ Returned
    /\ Requested("page") = Num(0)
    /\ Reported.page = Num(1)
    /\ fetchOp.offset = Num(0)

\* the caller leaves limit unset
LimitUnset == Called /\ Requested("limit") = Undefined

\* the default limit the repository was constructed with, 20 without one
ConfiguredDefaultLimit ==
    IF Opt(repo.args, "defaultLimit") = Undefined
    THEN Num(20)
    ELSE repo.args.defaultLimit

\* the max limit the repository was constructed with, 100 without one
ConfiguredMaxLimit ==
    IF Opt(repo.args, "maxLimit") = Undefined
    THEN Num(100)
    ELSE repo.args.maxLimit

\* C19 as stated: with limit unset the limit of the fetch and of the result
\* is the configured defaultLimit, for every repository configuration.
C19_Original ==
    LimitUnset =>
        /\ fetchOp.limit = ConfiguredDefaultLimit
        /\ Returned => Reported.limit = ConfiguredDefaultLimit

\* C19: with limit unset the limit of the fetch and of the result is the
\* configured defaultLimit (20 without one) when it lies in 1..maxLimit,
\* and the configured maxLimit (100 without one) when defaultLimit exceeds
\* it.
C19_DefaultLimitClamped ==
    LET expected ==
            IF ConfiguredDefaultLimit.n > ConfiguredMaxLimit.n
            THEN ConfiguredMaxLimit
            ELSE ConfiguredDefaultLimit
    IN  LimitUnset =>
            /\ fetchOp.limit = expected
            /\ Returned => Reported.limit = expected

C19_Witness ==
    /\ Returned
    /\ LimitUnset
    /\ ConfiguredDefaultLimit = Num(1)
    /\ ConfiguredMaxLimit = Num(2)
    /\ Reported.limit = Num(1)

\* C20: in every result total is the value the count returned and
\* totalPages is ceiling(total / limit); with total 0 the result has
\* totalPages 0 and hasNext false, and for requested page 1 also hasPrev
\* false and data the fetch's (empty) result.
C20_TotalPages ==
    Returned =>
        /\ Reported.total = countOp.value[1]
        /\ (IsInteger(Reported.limit) /\ Reported.limit.n >= 1) =>
                Reported.totalPages =
                    Num((Reported.total.n + Reported.limit.n - 1) \div Reported.limit.n)
        /\ Reported.total = Num(0) =>
                /\ Reported.totalPages = Num(0)
                /\ Reported.hasNext = Bool(FALSE)
                /\ Requested("page") = Num(1) =>
                        /\ Reported.hasPrev = Bool(FALSE)
                        /\ outcome.value[1].data = fetchOp.value[1]

\* C21: in every result hasPrev is true exactly when the clamped page is
\* greater than 1 and hasNext exactly when the clamped page is less than
\* totalPages; for a clamped limit >= 1 and total >= 0 hasNext is true
\* exactly when clamped page x clamped limit < total.
C21_HasPrevHasNext ==
    Returned =>
        /\ Reported.hasPrev = Bool(IsInteger(Reported.page) /\ Reported.page.n > 1)
        /\ Reported.hasNext = Bool(NumLess(Reported.page, Reported.totalPages))
        /\ (IsInteger(Reported.limit) /\ Reported.limit.n >= 1 /\ Reported.total.n >= 0) =>
                Reported.hasNext =
                    Bool(IsInteger(Reported.page)
                            /\ Reported.page.n * Reported.limit.n < Reported.total.n)

C21_Witness ==
    /\ Returned
    /\ Reported.page = Num(2)
    /\ Reported.limit = Num(1)
    /\ Reported.total = Num(3)
    /\ Reported.hasNext = Bool(TRUE)
    /\ Reported.hasPrev = Bool(TRUE)

\* C22: a result exists only once both the fetch and the count have
\* completed, whichever completed first; its data is the fetch's value and
\* its total the count's value.
C22_ResultAfterBoth ==
    Returned =>
        /\ fetchOp.state = "fulfilled"
        /\ countOp.state = "fulfilled"
        /\ settled \in {<<"fetch", "count">>, <<"count", "fetch">>}
        /\ outcome.value[1].data = fetchOp.value[1]
        /\ Reported.total = countOp.value[1]

C22_Witness ==
    /\ Returned
    /\ settled = <<"count", "fetch">>
    /\ outcome.value[1].data = Rows(1)
    /\ Reported.total = Num(2)

\* the operation of the call under its name
OpOf(name) == IF name = "fetch" THEN fetchOp ELSE countOp

\* the error of the operation that failed first
FirstFailure ==
    LET i == CHOOSE i \in 1..Len(settled) :
                /\ OpOf(settled[i]).state = "rejected"
                /\ \A j \in 1..(i - 1) : OpOf(settled[j]).state # "rejected"
    IN  OpOf(settled[i]).reason

\* C23: when the fetch or the count has failed the call never returns a
\* result; it fails with the error of the operation that failed (the first
\* to fail), unchanged, and keeps nothing of the other operation's value.
C23_FailurePropagates ==
    (fetchOp.state = "rejected" \/ countOp.state = "rejected") =>
        /\ ~Returned
        /\ call.state = "returned" =>
                /\ Failed
                /\ outcome.reason = FirstFailure
                /\ outcome.reason \in {FetchError, CountError}
                /\ outcome.value = <<>>

C23_Witness ==
    /\ call.state = "returned"
    /\ Failed
    /\ settled = <<"count", "fetch">>
    /\ countOp.state = "fulfilled"
    /\ fetchOp.state = "rejected"
    /\ outcome.reason = FetchError
    /\ outcome.value = <<>>

\* each operation has been issued once by the call, and not at all before it
IssuedOnce ==
    IF Called
    THEN fetchOp.issued = 1 /\ countOp.issued = 1
    ELSE /\ fetchOp.issued = 0 /\ fetchOp.state = "none"
         /\ countOp.issued = 0 /\ countOp.state = "none"

\* both operations are issued in one step, before either has settled
IssuedTogether ==
    (fetchOp'.issued # fetchOp.issued \/ countOp'.issued # countOp.issued) =>
        /\ fetchOp'.state = "pending"
        /\ countOp'.state = "pending"

\* a settled operation stays as it is; a pending one stays pending or
\* settles, whatever has become of the other one
RunsToItsEnd(op, next) ==
    /\ op.state \in {"fulfilled", "rejected"} => next = op
    /\ op.state = "pending" =>
            /\ next.state \in {"pending", "fulfilled", "rejected"}
            /\ next.issued = op.issued

\* C24: a call issues exactly one fetch and one count, both before either
\* has completed; it never issues one again and never cancels one: each
\* runs to its own completion or failure, also after the other has failed.
C24_IssuedOnceNeverCancelled ==
    /\ []IssuedOnce
    /\ [][/\ IssuedTogether
          /\ RunsToItsEnd(fetchOp, fetchOp')
          /\ RunsToItsEnd(countOp, countOp')]_vars

C24_Witness ==
    /\ call.state = "returned"
    /\ Failed
    /\ settled = <<"fetch", "count">>
    /\ fetchOp.state = "rejected"
    /\ countOp.state = "fulfilled"
    /\ fetchOp.issued = 1
    /\ countOp.issued = 1

\* C26: the fetch is issued with the caller's filter, the clamped limit
\* and offset (clamped page - 1) x clamped limit, a non-negative multiple
\* of the limit; the count is issued with the caller's filter and neither
\* limit nor offset.
C26_FetchAndCountArguments ==
    Called =>
        /\ fetchOp.where = Requested("where")
        /\ countOp.where = Requested("where")
        /\ DOMAIN countOp \cap {"limit", "offset"} = {}
        /\ fetchOp.limit = call.validatedLimit
        /\ Returned =>
                /\ Reported.limit = fetchOp.limit
                /\ Reported.page = call.validatedPage
        /\ IsInteger(call.validatedPage)
        /\ IsInteger(fetchOp.limit)
        /\ IsInteger(fetchOp.offset)
        /\ fetchOp.offset.n = (call.validatedPage.n - 1) * fetchOp.limit.n
        /\ fetchOp.offset.n >= 0

\* the handle of the caller goes unchanged to both operations
HandlePassedThrough ==
    Called => fetchOp.tx = Requested("tx") /\ countOp.tx = Requested("tx")

\* C27: findPaginated hands the caller's transaction handle, or its
\* absence, unchanged to the fetch and to the count, and its own steps (the
\* call and the return) leave the transaction as it is: only the fetch and
\* the count change its state.
C27_TransactionPassThrough ==
    /\ []HandlePassedThrough
    /\ [][call' # call => transaction' = transaction]_vars

C27_Witness ==
    /\ call.state = "returned"
    /\ Failed
    /\ Requested("tx") = Obj("tx1")
    /\ fetchOp.tx = Obj("tx1")
    /\ countOp.tx = Obj("tx1")
    /\ transaction = "aborted"

\* the other generation of the class
OtherForm == IF repo.form = "positional" THEN "options" ELSE "positional"

\* the call made on the other generation, for the same constructor
\* argument, the same arguments and the same outcomes of the operations,
\* has the same window and the same pagination
SameAsOtherForm ==
    LET cfg == Constructor(OtherForm, repo.args)
        validatedPage == ValidatedPage(RequestedPage(OtherForm, call.args))
        validatedLimit == ValidatedLimit(RequestedLimit(OtherForm, call.args, cfg), cfg)
    IN  /\ fetchOp.limit = validatedLimit
        /\ fetchOp.offset = Offset(validatedPage, validatedLimit)
        /\ Returned =>
                Reported = PaginatedResult(fetchOp.value[1], countOp.value[1],
                                           validatedPage, validatedLimit).pagination

Rank(e) ==
    CASE e.field = "dialect" -> 1
      [] e.field = "schemaPath" -> 2
      [] e.field = "outputPath" /\ e.type # "conflict" -> 3
      [] e.field = "basePath" -> 4
      [] e.field = "transactionTimeout" -> 5
      [] e.field = "pagination.defaultLimit" -> 6
      [] e.field = "pagination.maxLimit" -> 7
      [] e.field = "pagination" -> 8
      [] e.field = "outputPath" /\ e.type = "conflict" -> 9
      [] OTHER -> 0

\* the errors of a list whose places are in ranks
WithRanks(list, ranks) ==
    LET Among(e) == Rank(e) \in ranks
    IN  SelectSeq(list, Among)

\* the candidate with every field outside the given ones left out
Only(c, fields) ==
    Candidate(IF "dialect" \in fields THEN c.dialect ELSE Undefined,
              IF "schemaPath" \in fields THEN c.schemaPath ELSE Undefined,
              IF "outputPath" \in fields THEN c.outputPath ELSE Undefined,
              IF "basePath" \in fields THEN c.basePath ELSE Undefined,
              IF "transactionTimeout" \in fields THEN c.transactionTimeout ELSE Undefined,
              IF "pagination" \in fields THEN c.pagination ELSE NoPagination)

\* the fields that are checked together, with the places of their errors
RelatedFields ==
    {<<{"dialect"}, {1}>>, <<{"schemaPath"}, {2}>>,
     <<{"outputPath", "basePath"}, {3, 4, 9}>>,
     <<{"transactionTimeout"}, {5}>>, <<{"pagination"}, {6, 7, 8}>>}

\* the candidate of the documented scenario: dialect missing, paths equal
TwoErrorsCandidate ==
    Candidate(Undefined, Str("./s"), Str("./out"), Str("./out"), Undefined, NoPagination)

\* C25: validateConfig runs every check whatever failed before and reports
\* the errors in the order dialect, schemaPath, outputPath, basePath,
\* transactionTimeout, pagination.defaultLimit, pagination.maxLimit,
\* pagination conflict, path conflict; the errors of a field depend only on
\* that field and the fields checked together with it; a candidate without
\* dialect and with outputPath equal to basePath has exactly the errors
\* 'required' on dialect, then 'conflict' on outputPath.
C25_AllChecksInOrder ==
    Validated =>
        /\ \A i \in 1..Len(result.errors) : Rank(result.errors[i]) \in 1..9
        /\ \A i \in 1..(Len(result.errors) - 1) :
                Rank(result.errors[i]) < Rank(result.errors[i + 1])
        /\ \A g \in RelatedFields :
                WithRanks(result.errors, g[2])
                    = WithRanks(validateConfig(Only(config, g[1])).errors, g[2])
        /\ config = TwoErrorsCandidate =>
                result.errors = <<Entry("dialect", "required"), Entry("outputPath", "conflict")>>

C25_Witness ==
    /\ Validated
    /\ config = TwoErrorsCandidate
    /\ Len(result.errors) = 2
    /\ result.errors[1] = Entry("dialect", "required")
    /\ result.errors[2] = Entry("outputPath", "conflict")

(***************************************************************************)
(* Properties of the objects applyDefaults returns                         *)
(***************************************************************************)
\* C29: the configuration applyDefaults returns shares no mutable part with
\* its candidate: a change of a nested group or list of the returned
\* configuration never changes the candidate, and a change of the candidate
\* never changes the returned configuration.
C29_NothingShared ==
    [][/\ pc' = "changed returned" => config' = config
       /\ pc' = "changed candidate" => returned' = returned]_vars

(***************************************************************************)
(* Properties of findPaginated over a table that another process changes   *)
(***************************************************************************)
\* the number of rows a single table state of total rows gives the page
RowsOfPage(total) ==
    LET limit == Reported.limit.n
        offset == (Reported.page.n - 1) * limit
        rest == IF total - offset > 0 THEN total - offset ELSE 0
    IN  IF limit < rest THEN limit ELSE rest

\* the call was made without a transaction context
NoTransactionContext == Requested("tx") = Undefined

====
